---- MODULE Spec2Model ----
(***************************************************************************)
(* Observability pipeline of mcp_arena: MCPLogger, MCPMetricsCollector,    *)
(* MCPTracer and the instrumentation wrapper of                            *)
(* IntegratedObservabilityServer, as state machines.                       *)
(*                                                                         *)
(* Python values: None is the string "None"; a dict is a function; a dict  *)
(* that is iterated is kept with the sequence of its keys in insertion     *)
(* order; an object shared by two containers is kept once and referred to  *)
(* by its id.  A call that raises leaves the exception's type in last.exc. *)
(***************************************************************************)
EXTENDS Integers, Sequences, FiniteSets, TLC

None == "None"
\* None where the value is otherwise a number (a timestamp, a duration).
NoneNum == 0 - 1
\* None where the value is otherwise a dict; a dict is the set of its <<key, value>> pairs.
NoneDict == {<<"None">>}
\* An exception is its type and its message; NoExc is a call that returned.
Exc(type, msg) == [type |-> type, msg |-> msg]
NoExc == Exc("none", "")

Min(a, b) == IF a <= b THEN a ELSE b

\* [x.name for x in xs]
Field(xs, name) == [i \in 1..Len(xs) |-> xs[i][name]]

\* Python's truth value of an optional string.
Truthy(x) == x \notin {None, ""}

\* Python's xs[-n:] for n >= 1: the last n elements, all of xs when n >= Len(xs).
LastN(xs, n) == IF Len(xs) <= n THEN xs ELSE SubSeq(xs, Len(xs) - n + 1, Len(xs))

\* Python's xs[-n:] for any integer n: the last n elements when n > 0, all of xs when
\* n = 0 (the slice starts at index -0 = 0), xs without its first -n elements when n < 0.
SliceFromEnd(xs, n) ==
    IF n > 0 THEN LastN(xs, n)
    ELSE IF 0 - n >= Len(xs) THEN <<>>
    ELSE SubSeq(xs, 1 - n, Len(xs))

\* Python's xs[:n] for n >= 0.
FirstN(xs, n) == IF Len(xs) <= n THEN xs ELSE SubSeq(xs, 1, n)

SeqToSet(xs) == {xs[i] : i \in 1..Len(xs)}

(***************************************************************************)
(* Bounds of the model.                                                    *)
(***************************************************************************)
\* Capacity of the log buffer (self.max_buffer_size; the code's default is 1000).
log_max_buffer_size == 2
\* Capacity of the metrics buffer (self.max_buffer_size; default 5000).
metrics_max_buffer_size == 2
\* Capacity of the trace index (self.max_traces; default 1000).
max_traces == 2
\* Number of MCPLogger.log calls explored.
MaxLogCalls == 4
\* Number of MCPMetricsCollector.record calls explored.
MaxRecordCalls == 3
\* Capacity of LoggingMCPServer.global_log_buffer (max_global_buffer, 10000 in the code).
max_global_buffer == 2
\* Number of endpoint calls explored.
MaxEndpointCalls == 3
\* Number of tracer and wrapper calls explored.
MaxTracerCalls == 2
\* Largest reading of the clock.
MaxTime == 1
\* Number of summaries callers keep.
MaxSummaries == 1

(***************************************************************************)
(* Enumerations and input sets.                                            *)
(***************************************************************************)
LogLevel == {"DEBUG", "INFO", "WARNING", "ERROR", "CRITICAL"}
MetricType == {"counter", "gauge", "histogram", "timer"}
STARTED == "started"
SUCCESS == "success"
ERROR == "error"
WARNING == "warning"
TraceStatus == {STARTED, SUCCESS, ERROR, WARNING}

\* Names of the operations ("tools") used as inputs.
ToolNames == {"A", "B"}
\* Trace ids a caller may supply; "" is the empty string, which Python treats as false.
CallerTraceIds == {"", "t1", "t2"}
\* Ids the uuid source may hand out: f"trace_{uuid4().hex[:8]}", f"span_{uuid4().hex[:8]}".
GenTraceIds == {"trace_1", "trace_2", "trace_3"}
SpanIds == {"span_1", "span_2", "span_3", "span_4", "span_5", "span_6"}
\* What a wrapped operation does: return a value, or raise an exception of a type with a message.
ToolOutcomes == {[kind |-> "return", value |-> "result", type |-> None, msg |-> None],
                 [kind |-> "raise", value |-> None, type |-> "ValueError", msg |-> "x"],
                 [kind |-> "raise", value |-> None, type |-> "KeyError", msg |-> "y"],
                 [kind |-> "raise", value |-> None, type |-> "KeyboardInterrupt", msg |-> ""]}
\* A wrapped operation that itself calls instrumented operations of the same wrapper,
\* one after another, each of which returns, and then returns.
InnerTools == <<"B", "B">>
CallsInner == [kind |-> "calls", value |-> "result", type |-> None, msg |-> None]
Returning == [kind |-> "return", value |-> "result", type |-> None, msg |-> None]
\* Exception types that derive from Exception ("except Exception" catches them);
\* KeyboardInterrupt derives from BaseException only.
ExceptionTypes == {"ValueError", "KeyError", "TypeError"}
\* str(e): the message, except for KeyError, whose str is the repr of its argument.
Repr(msg) == CASE msg = "x" -> "'x'" [] msg = "y" -> "'y'" [] OTHER -> "''"
ExcStr(type, msg) == IF type = "KeyError" THEN Repr(msg) ELSE msg

VARIABLES
    now,              \* reading of datetime.now() / time.time()
    log_buffer,       \* MCPLogger.log_buffer
    logged,           \* every entry ever passed to log_buffer.append, in call order
    metrics_buffer,   \* MCPMetricsCollector.metrics_buffer
    counters,         \* MCPMetricsCollector.counters
    gauges,           \* MCPMetricsCollector.gauges
    recorded,         \* every metric ever recorded, in call order
    traces,           \* MCPTracer.traces: trace id -> Trace
    trace_order,      \* insertion order of the keys of MCPTracer.traces
    active_traces,    \* keys of MCPTracer.active_traces
    spans,            \* MCPTracer.spans: span id -> Span
    current_trace_id, \* IntegratedObservabilityServer.current_trace_id
    current_span_id,  \* IntegratedObservabilityServer.current_span_id
    tracer_calls,     \* number of tracer and wrapper calls made
    started,          \* the trace id of every start_trace call made, in call order
    collectors,       \* MetricsMCPServer.collectors: server name -> collector
    metrics_history,  \* MetricsMCPServer.metrics_history: server name -> metrics
    server_loggers,   \* LoggingMCPServer.server_loggers: server name -> logger
    global_log_buffer, \* LoggingMCPServer.global_log_buffer
    tracers,          \* TracingMCPServer.tracers: server name -> tracer
    tracer_names,     \* insertion order of the keys of TracingMCPServer.tracers
    endpoint_calls,   \* number of endpoint calls made
    threads,          \* each thread's place in the log or record call it is in
    summaries,        \* the summaries of get_metrics_summary that callers hold
    last              \* the last call: its name, arguments and outcome

vars == <<now, log_buffer, logged, metrics_buffer, counters, gauges, recorded,
          traces, trace_order, active_traces, spans, current_trace_id,
          current_span_id, tracer_calls, started, collectors, metrics_history,
          server_loggers, global_log_buffer, tracers, tracer_names, endpoint_calls,
          threads, summaries, last>>

logger_vars == <<log_buffer, logged>>
metrics_vars == <<metrics_buffer, counters, gauges, recorded>>
tracer_vars == <<traces, trace_order, active_traces, spans>>
wrapper_vars == <<current_trace_id, current_span_id>>
registry_vars == <<collectors, metrics_history, server_loggers, global_log_buffer,
                   tracers, tracer_names>>
caller_vars == <<threads, summaries>>

(***************************************************************************)
(* MCPLogger                                                               *)
(***************************************************************************)
LogEntry(timestamp, level, message, tool_name, request_id, duration_ms, error_details) ==
    [timestamp |-> timestamp, level |-> level, message |-> message,
     tool_name |-> tool_name, request_id |-> request_id,
     duration_ms |-> duration_ms, error_details |-> error_details]

\* LogAppend with the slice taken from the wrong end: self.log_buffer[:max].
LogAppend_KeepsOldest(buffer, log_entry) ==
    LET appended == Append(buffer, log_entry)
    IN  IF Len(appended) > log_max_buffer_size
        THEN FirstN(appended, log_max_buffer_size)
        ELSE appended

\* self.log_buffer.append(log_entry); if len > max: self.log_buffer = self.log_buffer[-max:]
LogAppend(buffer, log_entry) ==
    LET appended == Append(buffer, log_entry)
    IN  IF Len(appended) > log_max_buffer_size
        THEN LastN(appended, log_max_buffer_size)
        ELSE appended

\* The logger as a value.
Logger == [buffer |-> log_buffer, logged |-> logged]

\* MCPLogger.log (and debug, info, warning, error, critical, which pass their level)
\* as a function of the logger L at time t: the new logger.
log(L, t, level, message, tool_name, request_id, duration_ms, error_details) ==
    LET log_entry == LogEntry(t, level, message, tool_name, request_id, duration_ms,
                              error_details)
    IN  [buffer |-> LogAppend(L.buffer, log_entry),
         logged |-> Append(L.logged, log_entry)]

\* The entries get_logs keeps: "if level:" and "if tool_name:" filter on a truthy
\* argument only.
FilterLogs(buffer, level, tool_name) ==
    LET by_level == IF Truthy(level)
                    THEN SelectSeq(buffer, LAMBDA entry : entry.level = level)
                    ELSE buffer
    IN  IF Truthy(tool_name)
        THEN SelectSeq(by_level, LAMBDA entry : entry.tool_name = tool_name)
        ELSE by_level

\* MCPLogger.get_logs: the list it returns (asdict keeps every field's value).
get_logs(L, level, tool_name, limit) == SliceFromEnd(FilterLogs(L.buffer, level, tool_name), limit)

(***************************************************************************)
(* MCPMetricsCollector                                                     *)
(***************************************************************************)
Metric(name, type, value, timestamp, tool_name) ==
    [name |-> name, type |-> type, value |-> value, timestamp |-> timestamp,
     tool_name |-> tool_name]

\* Python's dict.get(key, default).
DictGet(d, key, default) == IF key \in DOMAIN d THEN d[key] ELSE default

\* Python's d[key] = value.
DictSet(d, key, value) == [k \in DOMAIN d \cup {key} |-> IF k = key THEN value ELSE d[k]]

\* The collector as a value.
Collector == [buffer |-> metrics_buffer, counters |-> counters, gauges |-> gauges,
              recorded |-> recorded]

\* record with the running total replaced by the value just recorded.
record_CounterOverwrites(M, t, metric_type, name, value, tool_name) ==
    LET metric == Metric(name, metric_type, value, t, tool_name)
        appended == Append(M.buffer, metric)
        buffer == IF Len(appended) > metrics_max_buffer_size
                  THEN LastN(appended, metrics_max_buffer_size)
                  ELSE appended
    IN  [buffer |-> buffer,
         counters |-> IF metric_type = "counter"
                      THEN DictSet(M.counters, name, value)
                      ELSE M.counters,
         gauges |-> IF metric_type = "counter" THEN M.gauges
                    ELSE IF metric_type = "gauge" THEN DictSet(M.gauges, name, value)
                    ELSE M.gauges,
         recorded |-> Append(M.recorded, metric)]

\* record with a gauge that adds up like a counter.
record_GaugeAccumulates(M, t, metric_type, name, value, tool_name) ==
    LET metric == Metric(name, metric_type, value, t, tool_name)
        appended == Append(M.buffer, metric)
        buffer == IF Len(appended) > metrics_max_buffer_size
                  THEN LastN(appended, metrics_max_buffer_size)
                  ELSE appended
    IN  [buffer |-> buffer,
         counters |-> IF metric_type = "counter"
                      THEN DictSet(M.counters, name, DictGet(M.counters, name, 0) + value)
                      ELSE M.counters,
         gauges |-> IF metric_type = "counter" THEN M.gauges
                    ELSE IF metric_type = "gauge"
                         THEN DictSet(M.gauges, name, DictGet(M.gauges, name, 0) + value)
                    ELSE M.gauges,
         recorded |-> Append(M.recorded, metric)]

\* record with a buffer that keeps its oldest metrics and drops the new one when full.
record_KeepsOldest(M, t, metric_type, name, value, tool_name) ==
    LET metric == Metric(name, metric_type, value, t, tool_name)
        appended == Append(M.buffer, metric)
        buffer == IF Len(appended) > metrics_max_buffer_size
                  THEN FirstN(appended, metrics_max_buffer_size)
                  ELSE appended
    IN  [buffer |-> buffer,
         counters |-> IF metric_type = "counter"
                      THEN DictSet(M.counters, name, DictGet(M.counters, name, 0) + value)
                      ELSE M.counters,
         gauges |-> IF metric_type = "counter" THEN M.gauges
                    ELSE IF metric_type = "gauge" THEN DictSet(M.gauges, name, value)
                    ELSE M.gauges,
         recorded |-> Append(M.recorded, metric)]

\* record with "else" in place of "elif metric_type == GAUGE": every kind but COUNTER
\* writes the gauge.
record_ElseWritesGauge(M, t, metric_type, name, value, tool_name) ==
    LET metric == Metric(name, metric_type, value, t, tool_name)
        appended == Append(M.buffer, metric)
        buffer == IF Len(appended) > metrics_max_buffer_size
                  THEN LastN(appended, metrics_max_buffer_size)
                  ELSE appended
    IN  [buffer |-> buffer,
         counters |-> IF metric_type = "counter"
                      THEN DictSet(M.counters, name, DictGet(M.counters, name, 0) + value)
                      ELSE M.counters,
         gauges |-> IF metric_type = "counter" THEN M.gauges
                    ELSE DictSet(M.gauges, name, value),
         recorded |-> Append(M.recorded, metric)]

\* MCPMetricsCollector.record as a function of the collector M at time t: the new collector.
record(M, t, metric_type, name, value, tool_name) ==
    LET metric == Metric(name, metric_type, value, t, tool_name)
        appended == Append(M.buffer, metric)
        buffer == IF Len(appended) > metrics_max_buffer_size
                  THEN LastN(appended, metrics_max_buffer_size)
                  ELSE appended
    IN  [buffer |-> buffer,
         counters |-> IF metric_type = "counter"
                      THEN DictSet(M.counters, name, DictGet(M.counters, name, 0) + value)
                      ELSE M.counters,
         gauges |-> IF metric_type = "counter" THEN M.gauges
                    ELSE IF metric_type = "gauge" THEN DictSet(M.gauges, name, value)
                    ELSE M.gauges,
         recorded |-> Append(M.recorded, metric)]

increment_counter(M, t, name, value, tool_name) == record(M, t, "counter", name, value, tool_name)
set_gauge(M, t, name, value, tool_name) == record(M, t, "gauge", name, value, tool_name)
record_timer(M, t, name, duration_ms, tool_name) == record(M, t, "timer", name, duration_ms, tool_name)

\* How many of the newest metrics the summary lists: metrics_buffer[-20:].
RecentCount == 20

\* total / time_diff, kept exact as the pair of the dividend and the divisor.
Quotient(total, time_diff) == [total |-> total, seconds |-> time_diff]

\* [m for m in metrics_buffer if m.name == counter_name and m.type == COUNTER]
CounterMetrics(M, counter_name) ==
    SelectSeq(M.buffer, LAMBDA m : m.name = counter_name /\ m.type = "counter")

\* (last_time - first_time).total_seconds(); the clock counts seconds.
TimeDiff(counter_metrics) ==
    counter_metrics[Len(counter_metrics)].timestamp - counter_metrics[1].timestamp

\* get_metrics_summary with "time_diff >= 0" in place of "time_diff > 0".
get_metrics_summary_ZeroElapsed(M) ==
    [total_metrics |-> Len(M.buffer),
     counters |-> M.counters,
     gauges |-> M.gauges,
     recent_metrics |-> LastN(M.buffer, RecentCount),
     counter_rates |->
        [counter_name \in {n \in DOMAIN M.counters :
                              /\ Len(CounterMetrics(M, n)) > 1
                              /\ TimeDiff(CounterMetrics(M, n)) >= 0} |->
            Quotient(M.counters[counter_name], TimeDiff(CounterMetrics(M, counter_name)))]]

\* MCPMetricsCollector.get_metrics_summary: the dict it returns.
get_metrics_summary(M) ==
    [total_metrics |-> Len(M.buffer),
     counters |-> M.counters,
     gauges |-> M.gauges,
     recent_metrics |-> LastN(M.buffer, RecentCount),
     counter_rates |->
        [counter_name \in {n \in DOMAIN M.counters :
                              /\ Len(CounterMetrics(M, n)) > 1
                              /\ TimeDiff(CounterMetrics(M, n)) > 0} |->
            Quotient(M.counters[counter_name], TimeDiff(CounterMetrics(M, counter_name)))]]

(***************************************************************************)
(* MCPTracer                                                               *)
(***************************************************************************)
\* Fields of the Trace dataclass: the keyword arguments its constructor accepts.
TraceFields == {"trace_id", "root_span_id", "server_name", "start_time", "end_time",
                "total_duration_ms", "status", "spans"}

\* Fields of the Span dataclass.
SpanFields == {"span_id", "trace_id", "parent_span_id", "name", "server_name",
               "tool_name", "start_time", "end_time", "duration_ms", "status",
               "tags", "logs", "error_details"}

\* A dataclass constructor called with keyword arguments: TypeError on a keyword
\* that is no field of the class.
DataclassInit(fields, kwargs) ==
    IF kwargs \subseteq fields THEN NoExc
    ELSE Exc("TypeError", "unexpected keyword argument")

\* Keyword arguments start_trace passes to Trace(...).
StartTraceKwargs == {"trace_id", "root_span_id", "server_name", "start_time", "tags"}

\* Keyword arguments start_span passes to Span(...).
StartSpanKwargs == {"span_id", "trace_id", "parent_span_id", "name", "server_name",
                    "tool_name", "start_time", "tags"}

Trace(trace_id, root_span_id, start_time) ==
    [trace_id |-> trace_id, root_span_id |-> root_span_id, start_time |-> start_time,
     end_time |-> NoneNum, total_duration_ms |-> NoneNum, status |-> STARTED,
     spans |-> <<>>]

Span(span_id, trace_id, parent_span_id, name, tool_name, start_time) ==
    [span_id |-> span_id, trace_id |-> trace_id, parent_span_id |-> parent_span_id,
     name |-> name, tool_name |-> tool_name, start_time |-> start_time,
     end_time |-> NoneNum, duration_ms |-> NoneNum, status |-> STARTED,
     error_details |-> NoneDict]

\* The tracer as a value.
Tracer == [traces |-> traces, order |-> trace_order, active |-> active_traces,
           spans |-> spans]

\* Python's "del d[k]" for every k of ks, on a dict kept as a function.
DictDel(d, ks) == [k \in DOMAIN d \ ks |-> d[k]]

\* MCPTracer.start_trace as a function of the tracer T: [exc, ret, T].  gen_trace_id
\* and gen_span_id are the ids the uuid source hands out.
start_trace(T, t, trace_name, trace_id, gen_trace_id, gen_span_id) ==
    LET tid == IF Truthy(trace_id) THEN trace_id ELSE gen_trace_id
        exc == DataclassInit(TraceFields, StartTraceKwargs)
        trace == Trace(tid, gen_span_id, t)
        order1 == IF tid \in DOMAIN T.traces THEN T.order ELSE Append(T.order, tid)
        traces1 == DictSet(T.traces, tid, trace)
        active1 == T.active \cup {tid}
        excess == IF Len(order1) > max_traces THEN Len(order1) - max_traces ELSE 0
        old == SeqToSet(FirstN(order1, excess))
    IN  IF exc # NoExc
        THEN [exc |-> exc, ret |-> None, T |-> T]
        ELSE [exc |-> NoExc, ret |-> tid,
              T |-> [traces |-> DictDel(traces1, old),
                     order |-> SubSeq(order1, excess + 1, Len(order1)),
                     active |-> active1 \ old,
                     spans |-> T.spans]]

\* MCPTracer.start_span: [exc, ret, T]; ret is the id of the new span.
start_span(T, t, trace_id, span_name, tool_name, parent_span_id, gen_trace_id, gen_root_id, gen_span_id) ==
    LET auto == IF trace_id \notin DOMAIN T.traces
                THEN start_trace(T, t, "auto", trace_id, gen_trace_id, gen_root_id)
                ELSE [exc |-> NoExc, ret |-> trace_id, T |-> T]
        T1 == auto.T
        exc == DataclassInit(SpanFields, StartSpanKwargs)
        span == Span(gen_span_id, trace_id, parent_span_id, span_name, tool_name, t)
        spans1 == DictSet(T1.spans, gen_span_id, span)
    IN  IF auto.exc # NoExc THEN [exc |-> auto.exc, ret |-> None, T |-> T]
        ELSE IF exc # NoExc THEN [exc |-> exc, ret |-> None, T |-> T1]
        ELSE IF trace_id \notin DOMAIN T1.traces
        THEN \* self.traces[trace_id] after self.spans[span_id] = span
             [exc |-> Exc("KeyError", trace_id), ret |-> None,
              T |-> [T1 EXCEPT !.spans = spans1]]
        ELSE [exc |-> NoExc, ret |-> gen_span_id,
              T |-> [T1 EXCEPT !.spans = spans1,
                               !.traces[trace_id].spans = Append(@, gen_span_id)]]

\* end_span without its guard: self.spans[span_id] raises KeyError on an unknown id.
end_span_NoGuard(T, t, span_id, status, error_details) ==
    IF span_id \notin DOMAIN T.spans
    THEN [exc |-> Exc("KeyError", span_id), ret |-> None, T |-> T]
    ELSE LET span == T.spans[span_id]
         IN  [exc |-> NoExc, ret |-> span_id,
              T |-> [T EXCEPT !.spans[span_id] =
                        [span EXCEPT !.end_time = t, !.status = status,
                                     !.error_details = error_details,
                                     !.duration_ms = t - span.start_time]]]

\* MCPTracer.end_span: [exc, ret, T]; ret is the span id, None for an unknown one.
end_span(T, t, span_id, status, error_details) ==
    IF span_id \notin DOMAIN T.spans
    THEN [exc |-> NoExc, ret |-> None, T |-> T]
    ELSE LET span == T.spans[span_id]
         IN  [exc |-> NoExc, ret |-> span_id,
              T |-> [T EXCEPT !.spans[span_id] =
                        [span EXCEPT !.end_time = t, !.status = status,
                                     !.error_details = error_details,
                                     !.duration_ms = t - span.start_time]]]

\* MCPTracer.end_trace: [exc, ret, T]; ret is the trace id, None for an unknown one.
end_trace(T, t, trace_id, status) ==
    IF trace_id \notin DOMAIN T.traces
    THEN [exc |-> NoExc, ret |-> None, T |-> T]
    ELSE LET trace == T.traces[trace_id]
         IN  [exc |-> NoExc, ret |-> trace_id,
              T |-> [T EXCEPT !.traces[trace_id] =
                                  [trace EXCEPT !.end_time = t, !.status = status,
                                                !.total_duration_ms = t - trace.start_time],
                              !.active = @ \ {trace_id}]]

\* MCPTracer.get_trace for a stored trace: asdict(trace), with the spans of the trace
\* in place of their ids.
get_trace(T, trace_id) ==
    [T.traces[trace_id] EXCEPT !.spans = [i \in 1..Len(@) |-> T.spans[@[i]]]]

\* Python's truth value of an optional number: None and 0 are falsy.
TruthyNum(x) == x # NoneNum /\ x # 0

\* MCPTracer.search_traces: asdict of the stored traces that match, in the order of
\* the index.  Each filter applies only when its argument is truthy, and the duration
\* bounds only when the trace's total duration is truthy as well.
search_traces(T, tool_name, status, min_duration_ms, max_duration_ms) ==
    LET match(trace_id) ==
            LET trace == T.traces[trace_id]
            IN  /\ Truthy(tool_name) =>
                      \E i \in 1..Len(trace.spans) : T.spans[trace.spans[i]].tool_name = tool_name
                /\ Truthy(status) => trace.status = status
                /\ (TruthyNum(min_duration_ms) /\ TruthyNum(trace.total_duration_ms)) =>
                      trace.total_duration_ms >= min_duration_ms
                /\ (TruthyNum(max_duration_ms) /\ TruthyNum(trace.total_duration_ms)) =>
                      trace.total_duration_ms <= max_duration_ms
        results == SelectSeq(T.order, match)
    IN  [i \in 1..Len(results) |-> get_trace(T, results[i])]

\* MCPTracer.span, the context manager, around a body that does `outcome`; t0 is the
\* time of entry and t1 the time the body ends.  [exc, ret, T, span]: ret is what the
\* with-statement yields to its caller, span the id of the span opened (None if none).
span_cm(T, t0, t1, trace_id, span_name, tool_name, parent_span_id, outcome, gen_trace_id, gen_root_id, gen_span_id) ==
    LET sp == start_span(T, t0, trace_id, span_name, tool_name, parent_span_id,
                         gen_trace_id, gen_root_id, gen_span_id)
        raised == Exc(outcome.type, outcome.msg)
    IN  IF sp.exc # NoExc
        THEN [exc |-> sp.exc, ret |-> None, T |-> sp.T, span |-> None]
        ELSE IF outcome.kind = "return"
        THEN [exc |-> NoExc, ret |-> outcome.value,
              T |-> end_span(sp.T, t1, sp.ret, SUCCESS, NoneDict).T, span |-> sp.ret]
        ELSE IF outcome.type \in ExceptionTypes
        THEN [exc |-> raised, ret |-> None,
              T |-> end_span(sp.T, t1, sp.ret, ERROR,
                             {<<"error", ExcStr(outcome.type, outcome.msg)>>}).T,
              span |-> sp.ret]
        ELSE [exc |-> raised, ret |-> None, T |-> sp.T, span |-> sp.ret]

(***************************************************************************)
(* IntegratedObservabilityServer.instrument_tool                           *)
(***************************************************************************)
\* f"tool_{tool_name}_calls", f"tool_{tool_name}_duration", f"tool_{tool_name}_errors"
ToolMetricName(tool_name, suffix) ==
    CASE tool_name = "A" /\ suffix = "calls" -> "tool_A_calls"
      [] tool_name = "A" /\ suffix = "duration" -> "tool_A_duration"
      [] tool_name = "A" /\ suffix = "errors" -> "tool_A_errors"
      [] tool_name = "B" /\ suffix = "calls" -> "tool_B_calls"
      [] tool_name = "B" /\ suffix = "duration" -> "tool_B_duration"
      [] tool_name = "B" /\ suffix = "errors" -> "tool_B_errors"

\* The message of a log entry: which message it is, and the number of a direct call.
Message(kind, n) == [kind |-> kind, n |-> n]

\* The server as a value.
Server == [log |-> Logger, M |-> Collector, T |-> Tracer, trace_id |-> current_trace_id, span_id |-> current_span_id]

\* An id of uuid4 that the tracer T does not use yet.
UnusedSpanId(T) ==
    CHOOSE id \in SpanIds \ (DOMAIN T.spans \cup {T.traces[t].root_span_id : t \in DOMAIN T.traces}) : TRUE

\* instrumented_tool up to the call of the wrapped function (lines 31-57):
\* [exc, S, span_id, events].
enter_tool(S, t0, tool_name, gen_trace_id, gen_root_id, gen_span_id) ==
    LET st == IF ~Truthy(S.trace_id)
              THEN start_trace(S.T, t0, "tool_call", None, gen_trace_id, gen_root_id)
              ELSE [exc |-> NoExc, ret |-> S.trace_id, T |-> S.T]
        trace_id == st.ret
        sp == start_span(st.T, t0, trace_id, "call", tool_name, S.span_id,
                         gen_trace_id, gen_root_id, gen_span_id)
        log1 == log(S.log, t0, "INFO", Message("starting", 0), tool_name, trace_id,
                    NoneNum, NoneDict)
        M1 == increment_counter(S.M, t0, ToolMetricName(tool_name, "calls"), 1, tool_name)
    IN  IF st.exc # NoExc
        THEN [exc |-> st.exc, S |-> S, span_id |-> None, events |-> <<>>]
        ELSE IF sp.exc # NoExc
        THEN [exc |-> sp.exc, S |-> [S EXCEPT !.trace_id = trace_id, !.T = sp.T],
              span_id |-> None, events |-> <<>>]
        ELSE [exc |-> NoExc,
              S |-> [log |-> log1, M |-> M1, T |-> sp.T,
                     trace_id |-> trace_id, span_id |-> sp.ret],
              span_id |-> sp.ret,
              events |-> <<"start_span", "log_starting", "increment_calls", "invoke">>]

\* instrumented_tool from the end of the wrapped function on (lines 60-93), on the
\* server S as the wrapped function left it; span_id is the span of this call.
\* [exc, ret, S, events].
exit_tool(S, t0, t1, tool_name, span_id, outcome) ==
    LET duration_ms == t1 - t0
        raised == Exc(outcome.type, outcome.msg)
        str_e == ExcStr(outcome.type, outcome.msg)
    IN  IF outcome.kind \in {"return", "calls"}
        THEN [exc |-> NoExc, ret |-> outcome.value,
              S |-> [S EXCEPT
                     !.log = log(S.log, t1, "INFO", Message("completed", 0), tool_name,
                                 S.trace_id, duration_ms, NoneDict),
                     !.M = record_timer(S.M, t1, ToolMetricName(tool_name, "duration"),
                                        duration_ms, tool_name),
                     !.T = end_span(S.T, t1, span_id, SUCCESS, NoneDict).T],
              events |-> <<"record_timer", "log_completed", "end_span">>]
        ELSE IF outcome.type \in ExceptionTypes
        THEN [exc |-> raised, ret |-> None,
              S |-> [S EXCEPT
                     !.log = log(S.log, t1, "ERROR", Message("failed", 0), tool_name,
                                 S.trace_id, duration_ms,
                                 {<<"error", str_e>>, <<"type", outcome.type>>}),
                     !.M = increment_counter(S.M, t1, ToolMetricName(tool_name, "errors"),
                                             1, tool_name),
                     !.T = end_span(S.T, t1, span_id, ERROR, {<<"error", str_e>>}).T],
              events |-> <<"increment_errors", "log_failed", "end_span">>]
        ELSE [exc |-> raised, ret |-> None, S |-> S, events |-> <<>>]

\* The element of a set of one element.  A value is bound as the element of a set
\* where it is used many times over, so that it is computed once.
The(set) == CHOOSE x \in set : TRUE

\* One call of instrumented_tool on the server S whose wrapped function returns
\* without calling the wrapper: the server after the call.
returning_tool(S, t, tool_name, gen_trace_id, gen_root_id) ==
    The({ IF entered.exc # NoExc THEN entered.S
          ELSE exit_tool(entered.S, t, t, tool_name, entered.span_id, Returning).S :
          entered \in {enter_tool(S, t, tool_name, gen_trace_id, gen_root_id,
                                  UnusedSpanId(S.T))} })

\* The body of a wrapped operation that calls the instrumented operations `tools` of
\* the wrapper S one after another: the wrapper after these calls.
inner_calls(S, t, tools, gen_trace_id, gen_root_id) ==
    LET after[i \in 0..Len(tools)] ==
            IF i = 0 THEN S
            ELSE The({ returning_tool(before, t, tools[i], gen_trace_id, gen_root_id) :
                       before \in {after[i - 1]} })
    IN  after[Len(tools)]

\* One call of instrumented_tool on the server S, the wrapped function doing `outcome`;
\* t0 is the time of the call, t1 the time the wrapped function ends.
\* [exc, ret, S, events]: events are the steps taken, in order.
instrumented_tool(S, t0, t1, tool_name, outcome, gen_trace_id, gen_root_id, gen_span_id) ==
    The({ IF entered.exc # NoExc
          THEN [exc |-> entered.exc, ret |-> None, S |-> entered.S, events |-> <<>>]
          ELSE The({ The({ [exc |-> left.exc, ret |-> left.ret, S |-> left.S,
                            events |-> entered.events \o left.events] :
                           left \in {exit_tool(body, t0, t1, tool_name, entered.span_id,
                                               outcome)} }) :
                     body \in {IF outcome.kind = "calls"
                               THEN inner_calls(entered.S, t1, InnerTools, gen_trace_id,
                                                gen_root_id)
                               ELSE entered.S} }) :
          entered \in {enter_tool(S, t0, tool_name, gen_trace_id, gen_root_id,
                                  gen_span_id)} })

(***************************************************************************)
(* MetricsMCPServer: the endpoints over the registered collectors          *)
(***************************************************************************)
\* A value an endpoint returns, with the registry it leaves: [exc, ret, X].
Returns(ret, X) == [exc |-> NoExc, ret |-> ret, X |-> X]
Raises(exc, X) == [exc |-> exc, ret |-> None, X |-> X]

\* Elements of a sequence of numbers: their sum, least and greatest.
SeqSum(xs) ==
    LET total[i \in 0..Len(xs)] == IF i = 0 THEN 0 ELSE total[i - 1] + xs[i]
    IN  total[Len(xs)]
SeqMin(xs) == CHOOSE x \in SeqToSet(xs) : \A y \in SeqToSet(xs) : x <= y
SeqMax(xs) == CHOOSE x \in SeqToSet(xs) : \A y \in SeqToSet(xs) : y <= x

\* The keys of a dict built by setdefault over the keys in ks, in insertion order.
KeysInOrder(ks) ==
    LET seen[i \in 0..Len(ks)] ==
            IF i = 0 THEN <<>>
            ELSE IF ks[i] \in SeqToSet(seen[i - 1]) THEN seen[i - 1]
            ELSE Append(seen[i - 1], ks[i])
    IN  seen[Len(ks)]

\* MetricType(metric_type), LogLevel(level): the member with that value; ValueError
\* for a string that is the value of no member.
EnumLookup(members, value) ==
    IF value \in members THEN NoExc ELSE Exc("ValueError", "not a valid member")

\* MCPMetricsCollector(server_name)
NewCollector == [buffer |-> <<>>, counters |-> <<>>, gauges |-> <<>>, recorded |-> <<>>]

\* The metrics server as a value.
MetricsServer == [collectors |-> collectors, metrics_history |-> metrics_history]

\* register_metrics_collector(server_name); the result's collector_id is an address
\* and is left out.
register_metrics_collector(X, server_name) ==
    Returns([success |-> TRUE, server |-> server_name,
             message |-> "Metrics collector registered"],
            [collectors |-> DictSet(X.collectors, server_name, NewCollector),
             metrics_history |-> DictSet(X.metrics_history, server_name, <<>>)])

\* record_server_metric that registers a collector for a server it does not know.
record_server_metric_Registers(X, t, server_name, metric_type, metric_name, value, tool_name) ==
    LET known == [collectors |-> IF server_name \in DOMAIN X.collectors THEN X.collectors
                                 ELSE DictSet(X.collectors, server_name, NewCollector),
                  metrics_history |-> IF server_name \in DOMAIN X.metrics_history
                                      THEN X.metrics_history
                                      ELSE DictSet(X.metrics_history, server_name, <<>>)]
    IN  IF EnumLookup(MetricType, metric_type) # NoExc
        THEN Raises(EnumLookup(MetricType, metric_type), X)
        ELSE LET collector == record(known.collectors[server_name], t, metric_type,
                                     metric_name, value, tool_name)
                 metric == Metric(metric_name, metric_type, value, t, tool_name)
             IN  Returns([success |-> TRUE, metric |-> metric, server |-> server_name],
                         [collectors |-> DictSet(known.collectors, server_name, collector),
                          metrics_history |->
                             DictSet(known.metrics_history, server_name,
                                     Append(known.metrics_history[server_name], metric))])

\* record_server_metric(server_name, metric_type, metric_name, value, tool_name)
record_server_metric(X, t, server_name, metric_type, metric_name, value, tool_name) ==
    IF server_name \notin DOMAIN X.collectors
    THEN Returns([error |-> "Server not registered for metrics"], X)
    ELSE IF EnumLookup(MetricType, metric_type) # NoExc
    THEN Raises(EnumLookup(MetricType, metric_type), X)
    ELSE LET collector == record(X.collectors[server_name], t, metric_type, metric_name,
                                 value, tool_name)
             metric == Metric(metric_name, metric_type, value, t, tool_name)
         IN  Returns([success |-> TRUE, metric |-> metric, server |-> server_name],
                     [collectors |-> DictSet(X.collectors, server_name, collector),
                      metrics_history |->
                         DictSet(X.metrics_history, server_name,
                                 Append(X.metrics_history[server_name], metric))])

\* _parse_time_range: the cutoff, in seconds of the clock.
parse_time_range(t, time_range) ==
    CASE time_range = "last_15m" -> t - 15 * 60
      [] time_range = "last_1h" -> t - 60 * 60
      [] time_range = "last_24h" -> t - 24 * 60 * 60
      [] time_range = "last_7d" -> t - 7 * 24 * 60 * 60
      [] OTHER -> t - 60 * 60

\* get_server_metrics(server_name, metric_name, time_range, limit)
get_server_metrics(X, t, server_name, metric_name, time_range, limit) ==
    IF server_name \notin DOMAIN X.metrics_history
    THEN Returns([error |-> "No metrics found for server"], X)
    ELSE LET cutoff == parse_time_range(t, time_range)
             filtered_metrics ==
                SelectSeq(X.metrics_history[server_name],
                          LAMBDA metric : /\ metric.timestamp >= cutoff
                                          /\ metric_name = None \/ metric.name = metric_name)
             limited == SliceFromEnd(filtered_metrics, limit)
         IN  Returns([server |-> server_name, metrics |-> limited, count |-> Len(limited),
                      time_range |-> time_range], X)

\* The tool_performance entry of one tool: None-like (no entry) is decided by the caller.
ToolPerformance(metrics) ==
    LET timer_values == Field(SelectSeq(metrics, LAMBDA m : m.type = "timer"), "value")
    IN  [call_count |-> Len(SelectSeq(metrics, LAMBDA m : m.type = "counter")),
         avg_response_time |-> Quotient(SeqSum(timer_values), Len(timer_values)),
         min_response_time |-> SeqMin(timer_values),
         max_response_time |-> SeqMax(timer_values)]

\* _generate_recommendations(summary, tool_performance, in the order of its tools)
generate_recommendations(summary, tool_performance, tools) ==
    LET error_counter == DictGet(summary.counters, "errors", 0)
        memory_usage == DictGet(summary.gauges, "memory_usage_mb", 0)
        slow == SelectSeq(tools, LAMBDA tool :
                    tool_performance[tool].avg_response_time.total
                       > 1000 * tool_performance[tool].avg_response_time.seconds)
    IN  (IF error_counter > 100 THEN <<[about |-> "errors", value |-> error_counter]>>
         ELSE <<>>)
        \o [i \in 1..Len(slow) |->
               [about |-> slow[i], value |-> tool_performance[slow[i]].avg_response_time]]
        \o (IF memory_usage > 500 THEN <<[about |-> "memory", value |-> memory_usage]>>
            ELSE <<>>)

\* analyze_server_performance(server_name)
analyze_server_performance(X, server_name) ==
    IF server_name \notin DOMAIN X.collectors
    THEN Returns([error |-> "Server not found"], X)
    ELSE LET summary == get_metrics_summary(X.collectors[server_name])
             all_metrics == DictGet(X.metrics_history, server_name, <<>>)
             with_tool == SelectSeq(all_metrics, LAMBDA m : Truthy(m.tool_name))
             tools == KeysInOrder(Field(with_tool, "tool_name"))
             of(tool) == SelectSeq(with_tool, LAMBDA m : m.tool_name = tool)
             timed == SelectSeq(tools, LAMBDA tool :
                         SelectSeq(of(tool), LAMBDA m : m.type = "timer") # <<>>)
             tool_performance == [tool \in SeqToSet(timed) |-> ToolPerformance(of(tool))]
         IN  Returns([server |-> server_name, summary |-> summary,
                      tool_performance |-> tool_performance,
                      recommendations |->
                         generate_recommendations(summary, tool_performance, timed)], X)

(***************************************************************************)
(* LoggingMCPServer: the endpoints over the registered loggers             *)
(***************************************************************************)
\* MCPLogger(server_name, server_type)
NewLogger == [buffer |-> <<>>, logged |-> <<>>]

\* The logging server as a value.
LoggingServer == [server_loggers |-> server_loggers, global_log_buffer |-> global_log_buffer]

\* register_server_logger(server_name, server_type); the result's logger_id is an
\* address and is left out.
register_server_logger(X, server_name) ==
    Returns([success |-> TRUE, server |-> server_name, message |-> "Logger registered"],
            [X EXCEPT !.server_loggers = DictSet(@, server_name, NewLogger)])

\* hooked_log: the registered logger's log, which also appends the entry to the
\* global buffer and keeps the last max_global_buffer entries of it.
hooked_log(X, t, server_name, level, message, tool_name) ==
    LET entry == LogEntry(t, level, message, tool_name, None, NoneNum, NoneDict)
        appended == Append(X.global_log_buffer, entry)
    IN  [server_loggers |->
            DictSet(X.server_loggers, server_name,
                    log(X.server_loggers[server_name], t, level, message, tool_name,
                        None, NoneNum, NoneDict)),
         global_log_buffer |-> IF Len(appended) > max_global_buffer
                               THEN LastN(appended, max_global_buffer)
                               ELSE appended]

\* get_server_logs(server_name, level, limit)
get_server_logs(X, server_name, level, limit) ==
    IF server_name \notin DOMAIN X.server_loggers
    THEN Returns([error |-> "Server not registered for logging"], X)
    ELSE IF Truthy(level) /\ EnumLookup(LogLevel, level) # NoExc
    THEN Raises(EnumLookup(LogLevel, level), X)
    ELSE LET logger == X.server_loggers[server_name]
             logs == get_logs(logger, level, None, limit)
         IN  Returns([server |-> server_name, logs |-> logs, count |-> Len(logs),
                      buffer_size |-> Len(logger.buffer)], X)

(***************************************************************************)
(* TracingMCPServer: the endpoints over the registered tracers             *)
(***************************************************************************)
\* MCPTracer(server_name)
NewTracer == [traces |-> <<>>, order |-> <<>>, active |-> {}, spans |-> <<>>]

\* The tracing server as a value.
TracingServer == [tracers |-> tracers, names |-> tracer_names]

\* register_tracer(server_name); the result's tracer_id is an address and is left out.
register_tracer(X, server_name) ==
    Returns([success |-> TRUE, server |-> server_name, message |-> "Tracer registered"],
            [tracers |-> DictSet(X.tracers, server_name, NewTracer),
             names |-> IF server_name \in DOMAIN X.tracers THEN X.names
                       ELSE Append(X.names, server_name)])

\* start_server_trace(server_name, trace_name, trace_id)
start_server_trace(X, t, server_name, trace_name, trace_id, gen_trace_id, gen_span_id) ==
    IF server_name \notin DOMAIN X.tracers
    THEN Returns([error |-> "Server not registered for tracing"], X)
    ELSE LET st == start_trace(X.tracers[server_name], t, trace_name, trace_id,
                               gen_trace_id, gen_span_id)
         IN  IF st.exc # NoExc THEN Raises(st.exc, X)
             ELSE Returns([success |-> TRUE, trace_id |-> st.ret, server |-> server_name,
                           trace_name |-> trace_name],
                          [X EXCEPT !.tracers = DictSet(@, server_name, st.T)])

\* The get_trace endpoint: get_trace(trace_id, server_name).
server_get_trace(X, trace_id, server_name) ==
    LET holders == IF Truthy(server_name)
                   THEN IF server_name \in DOMAIN X.tracers THEN <<server_name>> ELSE <<>>
                   ELSE X.names
        found == SelectSeq(holders, LAMBDA s_name : trace_id \in DOMAIN X.tracers[s_name].traces)
    IN  IF found # <<>>
        THEN Returns([trace |-> get_trace(X.tracers[found[1]], trace_id),
                      found_in |-> found[1]], X)
        ELSE Returns([error |-> "Trace not found"], X)

\* How many spans the analysis lists as slowest: spans_with_duration[:5].
SlowestCount == 5

\* sorted by duration, reverse=True: a stable sort, spans of equal duration keep
\* their order.
SortByDurationDesc(xs) ==
    LET sorted[i \in 0..Len(xs)] ==
            IF i = 0 THEN <<>>
            ELSE LET before == sorted[i - 1]
                     k == Cardinality({j \in 1..Len(before) :
                                          before[j].duration_ms >= xs[i].duration_ms})
                 IN  SubSeq(before, 1, k) \o <<xs[i]>> \o SubSeq(before, k + 1, Len(before))
    IN  sorted[Len(xs)]

\* analyze_trace_performance(server_name, trace_id).  A span that has not ended has
\* duration None: the sort of line 350 compares it and line 369 adds it to a number,
\* and either raises TypeError.
analyze_trace_performance(X, server_name, trace_id) ==
    IF server_name \notin DOMAIN X.tracers
    THEN Returns([error |-> "Server not found"], X)
    ELSE IF trace_id \notin DOMAIN X.tracers[server_name].traces
    THEN Returns([error |-> "Trace not found"], X)
    ELSE LET trace_data == get_trace(X.tracers[server_name], trace_id)
             spans_ == trace_data.spans
             span_durations ==
                SelectSeq(Field(spans_, "duration_ms"),
                          LAMBDA d : d # NoneNum /\ d # 0)
             tools == KeysInOrder(Field(spans_, "tool_name"))
             of(tool) == SelectSeq(spans_, LAMBDA span : span.tool_name = tool)
             slowest == FirstN(SortByDurationDesc(spans_), SlowestCount)
         IN  IF spans_ = <<>> THEN Returns([message |-> "No spans in trace"], X)
             ELSE IF \A i \in 1..Len(spans_) : spans_[i].parent_span_id # None
             THEN Returns([error |-> "No root span found"], X)
             ELSE IF \E i \in 1..Len(spans_) : spans_[i].duration_ms = NoneNum
             THEN Raises(Exc("TypeError", "unsupported operand type"), X)
             ELSE Returns(
                    [trace_id |-> trace_id, server |-> server_name,
                     total_spans |-> Len(spans_),
                     total_duration_ms |-> trace_data.total_duration_ms,
                     span_statistics |->
                        IF span_durations # <<>>
                        THEN [avg_duration |-> Quotient(SeqSum(span_durations),
                                                        Len(span_durations)),
                              max_duration |-> SeqMax(span_durations),
                              min_duration |-> SeqMin(span_durations)]
                        ELSE [avg_duration |-> Quotient(0, 1), max_duration |-> 0,
                              min_duration |-> 0],
                     slowest_spans |->
                        [i \in 1..Len(slowest) |->
                            [span_id |-> slowest[i].span_id, name |-> slowest[i].name,
                             tool |-> slowest[i].tool_name,
                             duration_ms |-> slowest[i].duration_ms]],
                     tool_breakdown |->
                        [tool \in SeqToSet(tools) |->
                            [count |-> Len(of(tool)),
                             total_time |-> SeqSum(Field(of(tool), "duration_ms"))]]],
                    X)

\* find_slow_traces(server_name, threshold_ms, limit): the tracer is looked up and
\* not read.
find_slow_traces(X, server_name, threshold_ms, limit) ==
    IF server_name \notin DOMAIN X.tracers
    THEN Returns([error |-> "Server not found"], X)
    ELSE Returns([server |-> server_name, threshold_ms |-> threshold_ms,
                  message |-> "Trace search would return slow traces here",
                  sample_criteria |-> [min_duration |-> threshold_ms,
                                       max_results |-> limit]], X)

(***************************************************************************)
(* The state after construction, and one action per call.                  *)
(***************************************************************************)
Call(op, args, exc, ret, events) ==
    [op |-> op, args |-> args, exc |-> exc, ret |-> ret, events |-> events]

\* The threads that call the one logger and the one collector at the same time; a
\* thread is idle or at a line of the call it is in, with the call's argument and
\* what it has read so far.
Threads == {"t1", "t2"}
Idle == [pc |-> "idle", call |-> None, local |-> None]

Init ==
    /\ now = 0
    /\ log_buffer = <<>>
    /\ logged = <<>>
    /\ metrics_buffer = <<>>
    /\ counters = <<>>
    /\ gauges = <<>>
    /\ recorded = <<>>
    /\ traces = <<>>
    /\ trace_order = <<>>
    /\ active_traces = {}
    /\ spans = <<>>
    /\ current_trace_id = None
    /\ current_span_id = None
    /\ tracer_calls = 0
    /\ started = <<>>
    /\ collectors = <<>>
    /\ metrics_history = <<>>
    /\ server_loggers = <<>>
    /\ global_log_buffer = <<>>
    /\ tracers = <<>>
    /\ tracer_names = <<>>
    /\ endpoint_calls = 0
    /\ threads = [th \in Threads |-> Idle]
    /\ summaries = <<>>
    /\ last = Call("init", None, NoExc, None, <<>>)

\* datetime.now() and time.time() read a clock that moves on between calls.
Tick ==
    /\ now < MaxTime
    /\ now' = now + 1
    /\ UNCHANGED <<logger_vars, metrics_vars, tracer_vars, wrapper_vars, registry_vars, caller_vars, endpoint_calls, tracer_calls,
                   started, last>>

SetLogger(L) ==
    /\ log_buffer' = L.buffer
    /\ logged' = L.logged

SetCollector(M) ==
    /\ metrics_buffer' = M.buffer
    /\ counters' = M.counters
    /\ gauges' = M.gauges
    /\ recorded' = M.recorded

SetTracer(T) ==
    /\ traces' = T.traces
    /\ trace_order' = T.order
    /\ active_traces' = T.active
    /\ spans' = T.spans

\* Levels and operations of the direct log calls explored.
DirectLevels == {"INFO", "ERROR"}
DirectTools == {None, "A"}

\* logger.log(level, message, tool_name=tool_name); the n-th direct call logs message n.
Log(level, tool_name) ==
    /\ Len(logged) < MaxLogCalls
    /\ SetLogger(log(Logger, now, level, Message("direct", Len(logged) + 1), tool_name,
                     None, NoneNum, NoneDict))
    /\ last' = Call("log", [level |-> level, tool_name |-> tool_name], NoExc, None, <<>>)
    /\ UNCHANGED <<now, metrics_vars, tracer_vars, wrapper_vars, registry_vars, caller_vars, endpoint_calls, tracer_calls, started>>

\* Filters and limits of the get_logs calls explored.
QueryLevels == {None, "ERROR"}
QueryLimits == {0, 1, 2}

\* logger.get_logs(level, tool_name, limit)
GetLogs(level, tool_name, limit) ==
    /\ last' = Call("get_logs", [level |-> level, tool_name |-> tool_name, limit |-> limit],
                    NoExc, get_logs(Logger, level, tool_name, limit), <<>>)
    /\ UNCHANGED <<now, logger_vars, metrics_vars, tracer_vars, wrapper_vars, registry_vars, caller_vars, endpoint_calls, tracer_calls,
                   started>>

\* Names and values of the direct record calls explored.
DirectNames == {"n1", "n2"}
\* value is a float the caller chooses; nothing in record restricts its sign.
DirectValues == {-1, 2}

\* What a caller passes as metric_type: a member of MetricType, or a string that is
\* none of them (the annotation is not enforced, and record never looks the kind up).
RecordKinds == MetricType \cup {"unknown"}
\* The sign of the value matters to the kinds that keep an aggregate, the name to the
\* kinds record knows.
RecordValues(metric_type) == IF metric_type \in {"counter", "gauge"} THEN DirectValues ELSE {2}
RecordNames(metric_type) == IF metric_type \in MetricType THEN DirectNames ELSE {"n1"}

\* collector.record(metric_type, name, value)
Record(metric_type, name, value) ==
    /\ Len(recorded) < MaxRecordCalls
    /\ SetCollector(record(Collector, now, metric_type, name, value, None))
    /\ last' = Call("record", [metric_type |-> metric_type, name |-> name,
                               value |-> value], NoExc, None, <<>>)
    /\ UNCHANGED <<now, logger_vars, tracer_vars, wrapper_vars, registry_vars, caller_vars, endpoint_calls, tracer_calls, started>>

\* collector.get_metrics_summary()
GetMetricsSummary ==
    /\ last' = Call("get_metrics_summary", None, NoExc, get_metrics_summary(Collector), <<>>)
    /\ UNCHANGED <<now, logger_vars, metrics_vars, tracer_vars, wrapper_vars, registry_vars, caller_vars, endpoint_calls, tracer_calls,
                   started>>

\* The ids uuid4 hands out are taken to differ from every id in use; which of the
\* unused ids comes next does not matter to any caller, so one is picked.
FreshTraceIds == GenTraceIds \ DOMAIN traces
FreshSpanIds == SpanIds \ (DOMAIN spans \cup {traces[t].root_span_id : t \in DOMAIN traces})
HasFreshIds == FreshTraceIds # {} /\ Cardinality(FreshSpanIds) >= 2
UuidTrace == CHOOSE g \in FreshTraceIds : TRUE
UuidRoot == CHOOSE r \in FreshSpanIds : TRUE
UuidSpan == CHOOSE sid \in FreshSpanIds \ {UuidRoot} : TRUE

\* tracer.start_trace("t", trace_id)
StartTrace(trace_id) ==
    /\ tracer_calls < MaxTracerCalls
    /\ HasFreshIds
    /\ LET res == start_trace(Tracer, now, "t", trace_id, UuidTrace, UuidRoot)
       IN  /\ SetTracer(res.T)
           /\ started' = Append(started, IF Truthy(trace_id) THEN trace_id ELSE UuidTrace)
           /\ last' = Call("start_trace", [trace_id |-> trace_id], res.exc, res.ret, <<>>)
    /\ tracer_calls' = tracer_calls + 1
    /\ UNCHANGED <<now, logger_vars, metrics_vars, wrapper_vars, registry_vars, caller_vars, endpoint_calls>>

\* tracer.start_span(trace_id, "s", tool_name, parent_span_id)
StartSpan(trace_id, tool_name, parent_span_id) ==
    /\ tracer_calls < MaxTracerCalls
    /\ HasFreshIds
    /\ LET res == start_span(Tracer, now, trace_id, "s", tool_name, parent_span_id,
                             UuidTrace, UuidRoot, UuidSpan)
       IN  /\ SetTracer(res.T)
           /\ last' = Call("start_span",
                           [trace_id |-> trace_id, tool_name |-> tool_name,
                            parent_span_id |-> parent_span_id],
                           res.exc, res.ret, <<>>)
    /\ tracer_calls' = tracer_calls + 1
    /\ UNCHANGED <<now, logger_vars, metrics_vars, wrapper_vars, registry_vars, caller_vars, endpoint_calls, started>>

\* tracer.end_span(span_id, status, error_details)
EndSpan(span_id, status, error_details) ==
    /\ tracer_calls < MaxTracerCalls
    /\ LET res == end_span(Tracer, now, span_id, status, error_details)
       IN  /\ SetTracer(res.T)
           /\ last' = Call("end_span", [span_id |-> span_id, status |-> status],
                           res.exc, res.ret, <<>>)
    /\ tracer_calls' = tracer_calls + 1
    /\ UNCHANGED <<now, logger_vars, metrics_vars, wrapper_vars, registry_vars, caller_vars, endpoint_calls, started>>

\* tracer.end_trace(trace_id, status)
EndTrace(trace_id, status) ==
    /\ tracer_calls < MaxTracerCalls
    /\ LET res == end_trace(Tracer, now, trace_id, status)
       IN  /\ SetTracer(res.T)
           /\ last' = Call("end_trace", [trace_id |-> trace_id, status |-> status],
                           res.exc, res.ret, <<>>)
    /\ tracer_calls' = tracer_calls + 1
    /\ UNCHANGED <<now, logger_vars, metrics_vars, wrapper_vars, registry_vars, caller_vars, endpoint_calls, started>>

\* tracer.search_traces(tool_name, status, min_duration_ms, max_duration_ms)
SearchTraces(tool_name, status, min_duration_ms, max_duration_ms) ==
    /\ tracer_calls < MaxTracerCalls
    /\ last' = Call("search_traces",
                    [tool_name |-> tool_name, status |-> status,
                     min_duration_ms |-> min_duration_ms,
                     max_duration_ms |-> max_duration_ms],
                    NoExc,
                    search_traces(Tracer, tool_name, status, min_duration_ms,
                                  max_duration_ms),
                    <<>>)
    /\ tracer_calls' = tracer_calls + 1
    /\ UNCHANGED <<now, logger_vars, metrics_vars, tracer_vars, wrapper_vars, registry_vars, caller_vars,
                   endpoint_calls, started>>

\* with tracer.span(trace_id, "s", tool_name, parent_span_id): <body doing outcome>
\* The body ends at a time t1 >= now.
ScopedSpan(trace_id, tool_name, parent_span_id, outcome) ==
    /\ tracer_calls < MaxTracerCalls
    /\ HasFreshIds
    /\ \E t1 \in now..MaxTime :
          /\ LET res == span_cm(Tracer, now, t1, trace_id, "s", tool_name, parent_span_id,
                                outcome, UuidTrace, UuidRoot, UuidSpan)
             IN  /\ SetTracer(res.T)
                 /\ now' = IF res.span = None THEN now ELSE t1
                 /\ last' = Call("span",
                                 [trace_id |-> trace_id, outcome |-> outcome,
                                  span |-> res.span],
                                 res.exc, res.ret, <<>>)
    /\ tracer_calls' = tracer_calls + 1
    /\ UNCHANGED <<logger_vars, metrics_vars, wrapper_vars, registry_vars, caller_vars, endpoint_calls, started>>

\* instrument_tool(tool_func, tool_name)() with tool_func doing outcome.
\* The wrapped function ends at a time t1 >= now.
InstrumentedTool(tool_name, outcome) ==
    /\ tracer_calls < MaxTracerCalls
    /\ HasFreshIds
    /\ outcome.kind = "calls" =>
          Cardinality(FreshSpanIds \ {UuidRoot, UuidSpan}) >= Len(InnerTools)
    /\ \E t1 \in now..MaxTime :
          /\ \E res \in {instrumented_tool(Server, now, t1, tool_name, outcome,
                                            UuidTrace, UuidRoot, UuidSpan)} :
                 /\ SetLogger(res.S.log)
                 /\ SetCollector(res.S.M)
                 /\ SetTracer(res.S.T)
                 /\ current_trace_id' = res.S.trace_id
                 /\ current_span_id' = res.S.span_id
                 /\ now' = IF res.events = <<>> THEN now ELSE t1
                 /\ started' = IF Truthy(current_trace_id) THEN started
                               ELSE Append(started, UuidTrace)
                 /\ last' = Call("instrumented_tool",
                                 [tool_name |-> tool_name, outcome |-> outcome,
                                  calls |-> DictGet(counters, ToolMetricName(tool_name, "calls"), 0),
                                  errors |-> DictGet(counters, ToolMetricName(tool_name, "errors"), 0),
                                  logged |-> Len(logged), spans |-> DOMAIN spans,
                                  span_id |-> current_span_id,
                                  started |-> Len(started)],
                                 res.exc, res.ret, res.events)
    /\ tracer_calls' = tracer_calls + 1
    /\ UNCHANGED <<registry_vars, caller_vars, endpoint_calls>>

\* Two invocations of instrumented operations of the one wrapper that run at the same
\* time on two threads, both wrapped operations returning.  The first to read the
\* wrapper's attributes sees them as they are; what the second sees of
\* current_span_id depends on how far the first has got: the value before the first
\* assigned it (line 43), or the first's span.  Each invocation's other steps act on
\* the logger, the collector and the tracer in the order the threads take them; they
\* are taken here first's before second's.
ConcurrentInstrumentedTools(tool_1, tool_2) ==
    /\ tracer_calls < MaxTracerCalls
    /\ Cardinality(FreshSpanIds) >= 3 /\ FreshTraceIds # {}
    /\ \E first \in {instrumented_tool(Server, now, now, tool_1, Returning,
                                        UuidTrace, UuidRoot, UuidSpan)} :
          \E seen \in {current_span_id, first.S.span_id} :
             \E second \in {instrumented_tool([first.S EXCEPT !.span_id = seen], now, now,
                                              tool_2, Returning, UuidTrace, UuidRoot,
                                              UnusedSpanId(first.S.T))} :
                  /\ SetLogger(second.S.log)
                  /\ SetCollector(second.S.M)
                  /\ SetTracer(second.S.T)
                  /\ current_trace_id' = second.S.trace_id
                  /\ current_span_id' = second.S.span_id
                  /\ started' = IF Truthy(current_trace_id) THEN started
                                ELSE IF Truthy(first.S.trace_id)
                                     THEN Append(started, UuidTrace)
                                     ELSE started \o <<UuidTrace, UuidTrace>>
                  /\ last' = Call("concurrent_instrumented_tools",
                                  [tools |-> <<tool_1, tool_2>>, spans |-> DOMAIN spans,
                                   started |-> Len(started)],
                                  <<first.exc, second.exc>>, <<first.ret, second.ret>>,
                                  first.events \o second.events)
    /\ tracer_calls' = tracer_calls + 1
    /\ UNCHANGED <<now, registry_vars, caller_vars, endpoint_calls>>

(***************************************************************************)
(* One action per endpoint call.                                           *)
(***************************************************************************)
ServerNames == {"s1", "s2"}

SetMetricsServer(X) ==
    /\ collectors' = X.collectors
    /\ metrics_history' = X.metrics_history

SetLoggingServer(X) ==
    /\ server_loggers' = X.server_loggers
    /\ global_log_buffer' = X.global_log_buffer

SetTracingServer(X) ==
    /\ tracers' = X.tracers
    /\ tracer_names' = X.names

\* The registries and stores of the three servers, as one value.
Registry == [collectors |-> collectors, metrics_history |-> metrics_history,
             server_loggers |-> server_loggers, global_log_buffer |-> global_log_buffer,
             tracers |-> tracers, tracer_names |-> tracer_names]

\* One endpoint call: what was called, with what, on which registry, and its outcome.
Endpoint(op, server_name, args, res) ==
    /\ endpoint_calls < MaxEndpointCalls
    /\ endpoint_calls' = endpoint_calls + 1
    /\ last' = Call(op, [server_name |-> server_name, args |-> args, before |-> Registry],
                    res.exc, res.ret, <<>>)
    /\ UNCHANGED <<now, logger_vars, metrics_vars, tracer_vars, wrapper_vars, caller_vars,
                   tracer_calls, started>>

RegisterMetricsCollector(server_name) ==
    LET res == register_metrics_collector(MetricsServer, server_name)
    IN  /\ Endpoint("register_metrics_collector", server_name, <<>>, res)
        /\ SetMetricsServer(res.X)
        /\ UNCHANGED <<server_loggers, global_log_buffer, tracers, tracer_names>>

RecordServerMetric(server_name, metric_type, metric_name, value, tool_name) ==
    LET res == record_server_metric(MetricsServer, now, server_name, metric_type,
                                    metric_name, value, tool_name)
    IN  /\ Endpoint("record_server_metric", server_name,
                    <<metric_type, metric_name, value, tool_name>>, res)
        /\ SetMetricsServer(res.X)
        /\ UNCHANGED <<server_loggers, global_log_buffer, tracers, tracer_names>>

GetServerMetrics(server_name, metric_name, time_range, limit) ==
    LET res == get_server_metrics(MetricsServer, now, server_name, metric_name,
                                  time_range, limit)
    IN  /\ Endpoint("get_server_metrics", server_name,
                    <<metric_name, time_range, limit>>, res)
        /\ SetMetricsServer(res.X)
        /\ UNCHANGED <<server_loggers, global_log_buffer, tracers, tracer_names>>

AnalyzeServerPerformance(server_name) ==
    LET res == analyze_server_performance(MetricsServer, server_name)
    IN  /\ Endpoint("analyze_server_performance", server_name, <<>>, res)
        /\ SetMetricsServer(res.X)
        /\ UNCHANGED <<server_loggers, global_log_buffer, tracers, tracer_names>>

RegisterServerLogger(server_name) ==
    LET res == register_server_logger(LoggingServer, server_name)
    IN  /\ Endpoint("register_server_logger", server_name, <<>>, res)
        /\ SetLoggingServer(res.X)
        /\ UNCHANGED <<collectors, metrics_history, tracers, tracer_names>>

\* The program that holds a registered logger logs through it.
ServerLog(server_name, level, tool_name) ==
    /\ server_name \in DOMAIN server_loggers
    /\ Len(server_loggers[server_name].logged) < MaxLogCalls
    /\ LET X == hooked_log(LoggingServer, now, server_name, level,
                           Message("direct", Len(server_loggers[server_name].logged) + 1),
                           tool_name)
       IN  /\ Endpoint("log", server_name, <<level, tool_name>>, Returns(None, X))
           /\ SetLoggingServer(X)
    /\ UNCHANGED <<collectors, metrics_history, tracers, tracer_names>>

GetServerLogs(server_name, level, limit) ==
    LET res == get_server_logs(LoggingServer, server_name, level, limit)
    IN  /\ Endpoint("get_server_logs", server_name, <<level, limit>>, res)
        /\ SetLoggingServer(res.X)
        /\ UNCHANGED <<collectors, metrics_history, tracers, tracer_names>>

RegisterTracer(server_name) ==
    LET res == register_tracer(TracingServer, server_name)
    IN  /\ Endpoint("register_tracer", server_name, <<>>, res)
        /\ SetTracingServer(res.X)
        /\ UNCHANGED <<collectors, metrics_history, server_loggers, global_log_buffer>>

StartServerTrace(server_name, trace_id) ==
    LET res == start_server_trace(TracingServer, now, server_name, "trace", trace_id,
                                  "trace_1", "span_1")
    IN  /\ Endpoint("start_server_trace", server_name, <<trace_id>>, res)
        /\ SetTracingServer(res.X)
        /\ UNCHANGED <<collectors, metrics_history, server_loggers, global_log_buffer>>

GetTrace(trace_id, server_name) ==
    LET res == server_get_trace(TracingServer, trace_id, server_name)
    IN  /\ Endpoint("get_trace", server_name, <<trace_id>>, res)
        /\ SetTracingServer(res.X)
        /\ UNCHANGED <<collectors, metrics_history, server_loggers, global_log_buffer>>

AnalyzeTracePerformance(server_name, trace_id) ==
    LET res == analyze_trace_performance(TracingServer, server_name, trace_id)
    IN  /\ Endpoint("analyze_trace_performance", server_name, <<trace_id>>, res)
        /\ SetTracingServer(res.X)
        /\ UNCHANGED <<collectors, metrics_history, server_loggers, global_log_buffer>>

FindSlowTraces(server_name, threshold_ms, limit) ==
    LET res == find_slow_traces(TracingServer, server_name, threshold_ms, limit)
    IN  /\ Endpoint("find_slow_traces", server_name, <<threshold_ms, limit>>, res)
        /\ SetTracingServer(res.X)
        /\ UNCHANGED <<collectors, metrics_history, server_loggers, global_log_buffer>>

\* Kinds and levels a client sends as strings: values of the enum, and a string that
\* is the value of no member.
EndpointKinds == {"counter", "timer", "unknown"}
EndpointLevels == {None, "ERROR", "verbose"}

ServersNext ==
    \/ \E server_name \in ServerNames : RegisterMetricsCollector(server_name)
    \/ \E server_name \in ServerNames, metric_type \in EndpointKinds :
          RecordServerMetric(server_name, metric_type, "n1", 2, "A")
    \/ \E server_name \in ServerNames : GetServerMetrics(server_name, None, "last_1h", 1)
    \/ \E server_name \in ServerNames : AnalyzeServerPerformance(server_name)
    \/ \E server_name \in ServerNames : RegisterServerLogger(server_name)
    \/ \E server_name \in ServerNames : ServerLog(server_name, "ERROR", "A")
    \/ \E server_name \in ServerNames, level \in EndpointLevels :
          GetServerLogs(server_name, level, 1)
    \/ \E server_name \in ServerNames : RegisterTracer(server_name)
    \/ \E server_name \in ServerNames : StartServerTrace(server_name, "t1")
    \/ \E server_name \in ServerNames \cup {None} : GetTrace("t1", server_name)
    \/ \E server_name \in ServerNames : AnalyzeTracePerformance(server_name, "t1")
    \/ \E server_name \in ServerNames : FindSlowTraces(server_name, 1000, 10)

(***************************************************************************)
(* Calls made by several threads at once.  No method takes a lock, so a    *)
(* thread can be suspended between any two statements of a call; one step  *)
(* is one statement, or one side of an assignment.                         *)
(***************************************************************************)
At(th, pc) == threads[th].pc = pc
Goto(th, pc, call, local) ==
    threads' = [threads EXCEPT ![th] = [pc |-> pc, call |-> call, local |-> local]]
AllIdle == \A th \in Threads : threads[th] = Idle

\* log, lines 78-96: log_entry = LogEntry(...); self.log_buffer.append(log_entry)
ThreadLogAppend(th) ==
    /\ At(th, "idle")
    /\ Len(logged) < MaxLogCalls
    /\ LET log_entry == LogEntry(now, "INFO", Message("direct", Len(logged) + 1), None,
                                 None, NoneNum, NoneDict)
       IN  /\ log_buffer' = Append(log_buffer, log_entry)
           /\ logged' = Append(logged, log_entry)
           /\ Goto(th, "log_len", log_entry, None)
    /\ UNCHANGED <<now, metrics_vars, tracer_vars, wrapper_vars, registry_vars, summaries,
                   endpoint_calls, tracer_calls, started, last>>

\* log, line 97: if len(self.log_buffer) > self.max_buffer_size; lines 100-110 touch
\* the standard logging only.
ThreadLogLen(th) ==
    /\ At(th, "log_len")
    /\ IF Len(log_buffer) > log_max_buffer_size
       THEN Goto(th, "log_slice", threads[th].call, None)
       ELSE threads' = [threads EXCEPT ![th] = Idle]
    /\ UNCHANGED <<now, logger_vars, metrics_vars, tracer_vars, wrapper_vars, registry_vars,
                   summaries, endpoint_calls, tracer_calls, started, last>>

\* log, line 98, right-hand side: self.log_buffer[-self.max_buffer_size:], a new list
ThreadLogSlice(th) ==
    /\ At(th, "log_slice")
    /\ Goto(th, "log_store", threads[th].call, LastN(log_buffer, log_max_buffer_size))
    /\ UNCHANGED <<now, logger_vars, metrics_vars, tracer_vars, wrapper_vars, registry_vars,
                   summaries, endpoint_calls, tracer_calls, started, last>>

\* log, line 98, the assignment: self.log_buffer = <the new list>
ThreadLogStore(th) ==
    /\ At(th, "log_store")
    /\ log_buffer' = threads[th].local
    /\ threads' = [threads EXCEPT ![th] = Idle]
    /\ UNCHANGED <<now, logged, metrics_vars, tracer_vars, wrapper_vars, registry_vars,
                   summaries, endpoint_calls, tracer_calls, started, last>>

\* Kinds and values of the records the threads make, all under one name.
ThreadKinds == {"counter", "gauge"}
ThreadName == "n1"

\* record, lines 49-60: metric = Metric(...); self.metrics_buffer.append(metric)
ThreadRecordAppend(th, metric_type, value) ==
    /\ At(th, "idle")
    /\ Len(recorded) < MaxRecordCalls
    /\ LET metric == Metric(ThreadName, metric_type, value, now, None)
       IN  /\ metrics_buffer' = Append(metrics_buffer, metric)
           /\ recorded' = Append(recorded, metric)
           /\ Goto(th, "record_len", metric, None)
    /\ UNCHANGED <<now, counters, gauges, logger_vars, tracer_vars, wrapper_vars,
                   registry_vars, summaries, endpoint_calls, tracer_calls, started, last>>

\* record, line 61: if len(self.metrics_buffer) > self.max_buffer_size
ThreadRecordLen(th) ==
    /\ At(th, "record_len")
    /\ Goto(th, IF Len(metrics_buffer) > metrics_max_buffer_size
                THEN "record_slice" ELSE "record_kind", threads[th].call, None)
    /\ UNCHANGED <<now, logger_vars, metrics_vars, tracer_vars, wrapper_vars, registry_vars,
                   summaries, endpoint_calls, tracer_calls, started, last>>

\* record, line 62, right-hand side: self.metrics_buffer[-self.max_buffer_size:]
ThreadRecordSlice(th) ==
    /\ At(th, "record_slice")
    /\ Goto(th, "record_store", threads[th].call,
            LastN(metrics_buffer, metrics_max_buffer_size))
    /\ UNCHANGED <<now, logger_vars, metrics_vars, tracer_vars, wrapper_vars, registry_vars,
                   summaries, endpoint_calls, tracer_calls, started, last>>

\* record, line 62, the assignment: self.metrics_buffer = <the new list>
ThreadRecordStore(th) ==
    /\ At(th, "record_store")
    /\ metrics_buffer' = threads[th].local
    /\ Goto(th, "record_kind", threads[th].call, None)
    /\ UNCHANGED <<now, counters, gauges, recorded, logger_vars, tracer_vars, wrapper_vars,
                   registry_vars, summaries, endpoint_calls, tracer_calls, started, last>>

\* record, lines 65-66, right-hand side: self.counters.get(name, 0) + value
ThreadCounterGet(th) ==
    /\ At(th, "record_kind")
    /\ threads[th].call.type = "counter"
    /\ Goto(th, "counter_set", threads[th].call,
            DictGet(counters, threads[th].call.name, 0) + threads[th].call.value)
    /\ UNCHANGED <<now, logger_vars, metrics_vars, tracer_vars, wrapper_vars, registry_vars,
                   summaries, endpoint_calls, tracer_calls, started, last>>

\* record, line 66, the assignment: self.counters[name] = <the sum>
ThreadCounterSet(th) ==
    /\ At(th, "counter_set")
    /\ counters' = DictSet(counters, threads[th].call.name, threads[th].local)
    /\ threads' = [threads EXCEPT ![th] = Idle]
    /\ UNCHANGED <<now, metrics_buffer, gauges, recorded, logger_vars, tracer_vars,
                   wrapper_vars, registry_vars, summaries, endpoint_calls, tracer_calls,
                   started, last>>

\* record, lines 67-68: elif metric_type == GAUGE: self.gauges[name] = value
ThreadGaugeSet(th) ==
    /\ At(th, "record_kind")
    /\ threads[th].call.type = "gauge"
    /\ gauges' = DictSet(gauges, threads[th].call.name, threads[th].call.value)
    /\ threads' = [threads EXCEPT ![th] = Idle]
    /\ UNCHANGED <<now, metrics_buffer, counters, recorded, logger_vars, tracer_vars,
                   wrapper_vars, registry_vars, summaries, endpoint_calls, tracer_calls,
                   started, last>>

\* A caller keeps the dict that collector.get_metrics_summary() returned, called
\* while no record call is in progress.
KeepMetricsSummary ==
    /\ Len(summaries) < MaxSummaries
    /\ AllIdle
    /\ summaries' = Append(summaries, get_metrics_summary(Collector))
    /\ UNCHANGED <<now, logger_vars, metrics_vars, tracer_vars, wrapper_vars, registry_vars,
                   threads, endpoint_calls, tracer_calls, started, last>>

CallersNext ==
    \/ \E th \in Threads :
          \/ ThreadLogAppend(th)
          \/ ThreadLogLen(th)
          \/ ThreadLogSlice(th)
          \/ ThreadLogStore(th)
          \/ \E metric_type \in ThreadKinds, value \in DirectValues :
                ThreadRecordAppend(th, metric_type, value)
          \/ ThreadRecordLen(th)
          \/ ThreadRecordSlice(th)
          \/ ThreadRecordStore(th)
          \/ ThreadCounterGet(th)
          \/ ThreadCounterSet(th)
          \/ ThreadGaugeSet(th)
    \/ KeepMetricsSummary

LoggerNext ==
    \/ Tick
    \/ \E level \in DirectLevels, tool_name \in DirectTools : Log(level, tool_name)
    \/ \E level \in QueryLevels, tool_name \in DirectTools, limit \in QueryLimits :
          GetLogs(level, tool_name, limit)

MetricsNext ==
    \/ Tick
    \/ \E metric_type \in RecordKinds :
          \E name \in RecordNames(metric_type), value \in RecordValues(metric_type) :
             Record(metric_type, name, value)
    \/ GetMetricsSummary

TracerNext ==
    \/ Tick
    \/ \E trace_id \in {None} \cup CallerTraceIds : StartTrace(trace_id)
    \/ \E trace_id \in CallerTraceIds, tool_name \in ToolNames,
          parent_span_id \in {None, "span_1"} :
          StartSpan(trace_id, tool_name, parent_span_id)
    \/ \E span_id \in {"span_1", "span_2"}, status \in TraceStatus \ {STARTED} :
          EndSpan(span_id, status, NoneDict)
    \/ \E trace_id \in CallerTraceIds, status \in TraceStatus \ {STARTED} :
          EndTrace(trace_id, status)
    \/ \E tool_name \in {None, "A"}, status \in {None, SUCCESS},
          max_duration_ms \in {NoneNum, 0} :
          SearchTraces(tool_name, status, NoneNum, max_duration_ms)
    \/ \E trace_id \in CallerTraceIds, outcome \in ToolOutcomes :
          ScopedSpan(trace_id, "A", None, outcome)
    \/ \E tool_name \in ToolNames, outcome \in ToolOutcomes \cup {CallsInner} :
          InstrumentedTool(tool_name, outcome)
    \/ \E tool_1 \in ToolNames : ConcurrentInstrumentedTools(tool_1, "B")

Next == LoggerNext \/ MetricsNext \/ TracerNext \/ ServersNext \/ CallersNext

Spec == Init /\ [][Next]_vars
LoggerSpec == Init /\ [][LoggerNext]_vars
MetricsSpec == Init /\ [][MetricsNext]_vars
TracerSpec == Init /\ [][TracerNext]_vars
ServersSpec == Init /\ [][ServersNext]_vars
CallersSpec == Init /\ [][CallersNext]_vars

(***************************************************************************)
(* Properties                                                              *)
(***************************************************************************)
\* The entries a wrapper call added to the logger, given the length of `logged` before it.
AddedEntries(before) == SubSeq(logged, before + 1, Len(logged))
ErrorEntries(entries) == {i \in 1..Len(entries) : entries[i].level = "ERROR"}
NoDuplicates(xs) == \A i, j \in 1..Len(xs) : xs[i] = xs[j] => i = j
WrapperCalled == last.op = "instrumented_tool"
WrappedRaises == last.args.outcome.kind = "raise" /\ last.args.outcome.type \in ExceptionTypes
WrappedReturns == last.args.outcome.kind = "return"

\* C1: after N log calls on a logger of capacity C, log_buffer holds exactly min(N, C)
\* entries, and they are the last min(N, C) entries logged, in the order logged.
C1_BufferIsMostRecent ==
    /\ Len(log_buffer) = Min(Len(logged), log_max_buffer_size)
    /\ log_buffer = SubSeq(logged, Len(logged) - Len(log_buffer) + 1, Len(logged))

\* C1 witness: more calls than the capacity were made, so entries were dropped twice over.
C1_Witness ==
    /\ Len(logged) >= log_max_buffer_size + 2
    /\ Len(log_buffer) = log_max_buffer_size

\* C2: after start_trace calls with distinct ids on a tracer of capacity max_traces, the
\* trace index holds min(calls, max_traces) traces, never more than max_traces; the
\* traces evicted are the earliest created, so the most recent ones remain in creation
\* order, and an evicted trace is in neither index.
C2_EvictsEarliestCreated ==
    NoDuplicates(started) =>
        /\ Len(trace_order) = Min(Len(started), max_traces)
        /\ trace_order = SubSeq(started, Len(started) - Len(trace_order) + 1, Len(started))
        /\ DOMAIN traces = SeqToSet(trace_order)
        /\ active_traces \subseteq DOMAIN traces

\* C6: a unit of work run under tracer.span leaves its span ended: SUCCESS when the work
\* returns, and the work's result is not disturbed; ERROR with the failure's description
\* when it raises, and the caller gets the work's own failure.  The span is never left
\* STARTED.
C6_ScopedSpanAlwaysEnded ==
    last.op = "span" =>
        /\ last.args.span \in DOMAIN spans
        /\ spans[last.args.span].status # STARTED
        /\ last.args.outcome.kind = "return" =>
              /\ last.exc = NoExc
              /\ spans[last.args.span].status = SUCCESS
        /\ last.args.outcome.kind = "raise" =>
              /\ last.exc = Exc(last.args.outcome.type, last.args.outcome.msg)
              /\ spans[last.args.span].status = ERROR
              /\ spans[last.args.span].error_details =
                    {<<"error", ExcStr(last.args.outcome.type, last.args.outcome.msg)>>}

\* C7: a wrapper call whose wrapped operation raises re-raises that same failure, adds
\* exactly one ERROR entry to the logger, whose error details carry the failure's type
\* name and message, and adds exactly 1 to tool_<operation>_errors.
C7_FailureRecordedAndReraised ==
    (WrapperCalled /\ WrappedRaises) =>
        LET added == AddedEntries(last.args.logged)
            outcome == last.args.outcome
        IN  /\ last.exc = Exc(outcome.type, outcome.msg)
            /\ Cardinality(ErrorEntries(added)) = 1
            /\ \A i \in ErrorEntries(added) :
                  added[i].error_details = {<<"error", outcome.msg>>, <<"type", outcome.type>>}
            /\ DictGet(counters, ToolMetricName(last.args.tool_name, "errors"), 0)
                  = last.args.errors + 1

\* C8: a wrapper call whose wrapped operation returns gives back its result and does, in
\* this order: open a span, log "starting", add 1 to tool_<operation>_calls, invoke,
\* record the timer, log "completed", end the span SUCCESS; it logs no ERROR entry and
\* leaves the error counter alone.
C8_SuccessPath ==
    (WrapperCalled /\ WrappedReturns) =>
        LET added == AddedEntries(last.args.logged)
        IN  /\ last.exc = NoExc
            /\ last.ret = last.args.outcome.value
            /\ last.events = <<"start_span", "log_starting", "increment_calls", "invoke",
                               "record_timer", "log_completed", "end_span">>
            /\ DictGet(counters, ToolMetricName(last.args.tool_name, "calls"), 0)
                  = last.args.calls + 1
            /\ DictGet(counters, ToolMetricName(last.args.tool_name, "errors"), 0)
                  = last.args.errors
            /\ ErrorEntries(added) = {}
            /\ current_span_id \in DOMAIN spans
            /\ spans[current_span_id].status = SUCCESS

\* C9: a wrapper call whose wrapped operation raises leaves the span it opened ended with
\* ERROR, with the failure's type and message as its error details: the details of the
\* ERROR log entry of that call.
C9_FailedSpanCarriesDetails ==
    (WrapperCalled /\ WrappedRaises) =>
        LET added == AddedEntries(last.args.logged)
            outcome == last.args.outcome
        IN  /\ current_span_id \in DOMAIN spans
            /\ spans[current_span_id].status = ERROR
            /\ spans[current_span_id].error_details
                  = {<<"error", outcome.msg>>, <<"type", outcome.type>>}
            /\ \A i \in ErrorEntries(added) :
                  added[i].error_details = spans[current_span_id].error_details

\* C10: start_trace returns without raising, with the caller's id when one is given; the
\* trace with the id returned is STARTED, has no end time, is in the trace index and in
\* the active index, and no Span is stored under its root span id.
C10_StartTraceRegisters ==
    last.op = "start_trace" =>
        /\ last.exc = NoExc
        /\ last.ret # None
        /\ last.args.trace_id \notin {None, ""} => last.ret = last.args.trace_id
        /\ last.ret \in DOMAIN traces
        /\ last.ret \in active_traces
        /\ traces[last.ret].status = STARTED
        /\ traces[last.ret].end_time = NoneNum
        /\ traces[last.ret].root_span_id \notin DOMAIN spans

\* C11: start_span does not fail on an unknown trace id: when it returns, a trace with
\* that id is stored, the new span is stored under its id with status STARTED and no end
\* time, and it is the last element of that trace's span list.
C11_StartSpanAutoCreates ==
    last.op = "start_span" =>
        /\ last.exc = NoExc
        /\ last.args.trace_id \in DOMAIN traces
        /\ last.ret \in DOMAIN spans
        /\ spans[last.ret].status = STARTED
        /\ spans[last.ret].end_time = NoneNum
        /\ traces[last.args.trace_id].spans # <<>>
        /\ traces[last.args.trace_id].spans[Len(traces[last.args.trace_id].spans)] = last.ret

\* A step that is a call of end_span with a span id that is not stored.
EndSpanUnknownStep ==
    /\ tracer_calls' = tracer_calls + 1
    /\ last'.op = "end_span"
    /\ last'.args.span_id \notin DOMAIN spans

\* A step that is a call of end_trace with a trace id that is not stored.
EndTraceUnknownStep ==
    /\ tracer_calls' = tracer_calls + 1
    /\ last'.op = "end_trace"
    /\ last'.args.trace_id \notin DOMAIN traces

\* C12: end_span with an unknown span id and end_trace with an unknown trace id return
\* None, raise nothing and leave the trace index, the active index, the span index and
\* every trace and span as they were.
C12_UnknownIdIsNoOp ==
    [][(EndSpanUnknownStep \/ EndTraceUnknownStep) =>
          /\ last'.ret = None
          /\ last'.exc = NoExc
          /\ UNCHANGED tracer_vars]_vars

\* C12 witness: end_span was called with an id that is not stored, after another call.
C12_Witness ==
    /\ last.op = "end_span"
    /\ last.args.span_id \notin DOMAIN spans
    /\ last.ret = None
    /\ tracer_calls >= 2

(***************************************************************************)
(* MCPMetricsCollector: counters, gauges, buffer, summary                  *)
(***************************************************************************)
\* The sum of the values of the COUNTER metrics named name in the sequence ms.
CounterTotal(ms, name) ==
    LET total[i \in 0..Len(ms)] ==
            IF i = 0 THEN 0
            ELSE total[i - 1] + (IF ms[i].type = "counter" /\ ms[i].name = name
                                 THEN ms[i].value ELSE 0)
    IN  total[Len(ms)]

\* The positions in ms of the metrics of the given kind and name.
Positions(ms, kind, name) == {i \in 1..Len(ms) : ms[i].type = kind /\ ms[i].name = name}
First(S) == CHOOSE i \in S : \A j \in S : i <= j
Last(S) == CHOOSE i \in S : \A j \in S : j <= i

\* C15: counters[name] is the sum of the values of every COUNTER record made under
\* name since construction, evicted from the buffer or not; a name has a counter
\* exactly when such a record was made.
C15_CounterIsSumOfRecords ==
    /\ DOMAIN counters \subseteq DirectNames
    /\ \A name \in DirectNames :
          /\ name \in DOMAIN counters <=> Positions(recorded, "counter", name) # {}
          /\ name \in DOMAIN counters => counters[name] = CounterTotal(recorded, name)

\* Two COUNTER records under one name, the first of them evicted from the buffer,
\* and the counter holds v1 + v2 while the buffer no longer adds up to it.
C15_Witness ==
    /\ Len(recorded) > metrics_max_buffer_size
    /\ \E i, j \in 1..Len(recorded) :
          /\ i < j
          /\ i <= Len(recorded) - metrics_max_buffer_size
          /\ Positions(recorded, "counter", "n1") = {i, j}
          /\ counters["n1"] = recorded[i].value + recorded[j].value
          /\ CounterTotal(metrics_buffer, "n1") # counters["n1"]

\* C16: from one state to the next no counter disappears and no counter's running
\* total decreases, whatever value is recorded.
C16_CountersNeverDecrease ==
    [][\A name \in DOMAIN counters :
          /\ name \in DOMAIN counters'
          /\ counters'[name] >= counters[name]]_vars

\* C17: gauges[name] is the value of the most recent GAUGE record made under name,
\* whatever was recorded in between and whatever the buffer still holds; a name has
\* a gauge exactly when such a record was made.
C17_GaugeIsLatestRecord ==
    /\ DOMAIN gauges \subseteq DirectNames
    /\ \A name \in DirectNames :
          LET set == Positions(recorded, "gauge", name)
          IN  /\ name \in DOMAIN gauges <=> set # {}
              /\ set # {} => gauges[name] = recorded[Last(set)].value

\* set_gauge(n1, v1), a record of another kind or name, set_gauge(n1, v2) with
\* v2 # v1, the first of them evicted: the gauge holds v2.
C17_Witness ==
    /\ Len(recorded) > metrics_max_buffer_size
    /\ \E i, j, k \in 1..Len(recorded) :
          /\ i < j /\ j < k
          /\ i <= Len(recorded) - metrics_max_buffer_size
          /\ Positions(recorded, "gauge", "n1") = {i, k}
          /\ recorded[i].value # recorded[k].value
          /\ gauges["n1"] = recorded[k].value

\* C18: after N records the buffer holds exactly min(N, capacity) metrics, and they
\* are the min(N, capacity) most recent records in recording order.
C18_BufferIsMostRecent ==
    LET held == Min(Len(recorded), metrics_max_buffer_size)
    IN  /\ Len(metrics_buffer) = held
        /\ \A i \in 1..held : metrics_buffer[i] = recorded[Len(recorded) - held + i]

\* More records than the capacity: the oldest record is gone and the buffer starts
\* at the oldest of the records that remain.
C18_Witness ==
    /\ Len(recorded) > metrics_max_buffer_size
    /\ Len(metrics_buffer) = metrics_max_buffer_size
    /\ metrics_buffer[1] = recorded[Len(recorded) - metrics_max_buffer_size + 1]
    /\ metrics_buffer[1] # recorded[1]

\* A step that is one call of record.
RecordStep == Len(recorded') = Len(recorded) + 1 /\ last'.op = "record"

\* The counter and the gauge of name are the same before and after the step.
SameAggregates(name) ==
    /\ name \in DOMAIN counters' <=> name \in DOMAIN counters
    /\ name \in DOMAIN counters => counters'[name] = counters[name]
    /\ name \in DOMAIN gauges' <=> name \in DOMAIN gauges
    /\ name \in DOMAIN gauges => gauges'[name] = gauges[name]

\* C19: a HISTOGRAM or TIMER record leaves counters and gauges unchanged, a COUNTER
\* record leaves gauges unchanged, a GAUGE record leaves counters unchanged, and a
\* record under one name changes no other name's counter or gauge.
C19_RecordFrame ==
    [][RecordStep =>
          /\ last'.args.metric_type \in {"histogram", "timer"} =>
                counters' = counters /\ gauges' = gauges
          /\ last'.args.metric_type = "counter" => gauges' = gauges
          /\ last'.args.metric_type = "gauge" => counters' = counters
          /\ \A other \in DirectNames \ {last'.args.name} : SameAggregates(other)]_vars

\* A TIMER record under a name that has a counter and a gauge, with a counter and a
\* gauge under the other name as well.
C19_Witness ==
    /\ last.op = "record"
    /\ last.args.metric_type \in {"histogram", "timer"}
    /\ last.args.name \in DOMAIN counters
    /\ DOMAIN gauges # {}
    /\ recorded[Len(recorded)].type = last.args.metric_type

\* C20: the summary holds a rate for a name exactly when at least two COUNTER
\* samples of that name are in the buffer and the time from the first to the last
\* of them is positive; the rate is counters[name] divided by that time.
C20_CounterRates ==
    last.op = "get_metrics_summary" =>
        /\ DOMAIN last.ret.counter_rates \subseteq DirectNames
        /\ \A name \in DirectNames :
              LET set == Positions(metrics_buffer, "counter", name)
                  elapsed == metrics_buffer[Last(set)].timestamp
                             - metrics_buffer[First(set)].timestamp
              IN  /\ name \in DOMAIN last.ret.counter_rates
                        <=> (Cardinality(set) >= 2 /\ elapsed > 0)
                  /\ name \in DOMAIN last.ret.counter_rates =>
                        last.ret.counter_rates[name] = Quotient(counters[name], elapsed)

\* A summary with a rate for n1 over a positive time, whose total includes a sample
\* that the buffer no longer holds.
C20_Witness ==
    /\ last.op = "get_metrics_summary"
    /\ "n1" \in DOMAIN last.ret.counter_rates
    /\ last.ret.counter_rates["n1"].total # CounterTotal(metrics_buffer, "n1")
    /\ last.ret.counter_rates["n1"].seconds > 0

(***************************************************************************)
(* MCPLogger.get_logs                                                      *)
(***************************************************************************)
\* C22: get_logs(level, tool_name, limit) leaves the buffer as it is and returns the
\* last min(limit, matching) buffered entries that match the filters, in buffer order,
\* for every limit >= 0.
C22_GetLogsReturnsLastMatches ==
    last.op = "get_logs" =>
        LET matching == FilterLogs(log_buffer, last.args.level, last.args.tool_name)
            count == Min(last.args.limit, Len(matching))
        IN  /\ log_buffer = LastN(logged, log_max_buffer_size)
            /\ Len(last.ret) = count
            /\ last.ret = SubSeq(matching, Len(matching) - count + 1, Len(matching))

(***************************************************************************)
(* The endpoints of the aggregation servers                                *)
(***************************************************************************)
\* C21: a recording call with a kind that is none of COUNTER, GAUGE, HISTOGRAM, TIMER
\* fails, and stores nothing: no metric of such a kind is ever in the collector's
\* buffer, and the record_server_metric endpoint leaves every store as it was.
C21_UnknownKindRejected ==
    /\ \A i \in 1..Len(metrics_buffer) : metrics_buffer[i].type \in MetricType
    /\ (last.op = "record" /\ last.args.metric_type \notin MetricType) => last.exc # NoExc
    /\ (last.op = "record_server_metric" /\ last.args.args[1] \notin MetricType) =>
          /\ last.exc # NoExc \/ "error" \in DOMAIN last.ret
          /\ Registry = last.args.before

\* The endpoints that look a server or a trace up.
LookupEndpoints ==
    {"record_server_metric", "get_server_metrics", "analyze_server_performance",
     "get_server_logs", "start_server_trace", "get_trace", "analyze_trace_performance",
     "find_slow_traces"}

\* The last call named a server that was not registered with the server it was sent to.
UnregisteredServer ==
    CASE last.op \in {"record_server_metric", "analyze_server_performance"} ->
            last.args.server_name \notin DOMAIN last.args.before.collectors
      [] last.op = "get_server_metrics" ->
            last.args.server_name \notin DOMAIN last.args.before.metrics_history
      [] last.op = "get_server_logs" ->
            last.args.server_name \notin DOMAIN last.args.before.server_loggers
      [] OTHER ->
            /\ last.args.server_name # None
            /\ last.args.server_name \notin DOMAIN last.args.before.tracers

\* The last call looked up a trace id that no tracer it searched has stored.
UnknownTrace ==
    /\ last.op \in {"get_trace", "analyze_trace_performance"}
    /\ \A s \in DOMAIN last.args.before.tracers :
          (last.args.server_name \in {None, s}) =>
             last.args.args[1] \notin DOMAIN last.args.before.tracers[s].traces

\* C27: an endpoint called with a server name that was never registered, or looking
\* up a trace id that is not stored, does not raise, returns a result with an error
\* entry, and leaves every registry and store as it was.
C27_UnknownServerOrTraceIsNotFound ==
    (last.op \in LookupEndpoints /\ (UnregisteredServer \/ UnknownTrace)) =>
        /\ last.exc = NoExc
        /\ "error" \in DOMAIN last.ret
        /\ Registry = last.args.before

\* A metric was recorded for s1; then a metric is sent for s2, which was never
\* registered: an error result, and the collector and history of s1 as they were.
C27_Witness ==
    /\ last.op = "record_server_metric"
    /\ last.args.server_name = "s2"
    /\ DOMAIN collectors = {"s1"}
    /\ Len(metrics_history["s1"]) = 1
    /\ "error" \in DOMAIN last.ret

\* The stored traces of T whose total duration exceeds threshold_ms, the first limit
\* of them, in the order stored.
SlowTraces(T, threshold_ms, limit) ==
    FirstN(SelectSeq([i \in 1..Len(T.order) |-> T.traces[T.order[i]]],
                     LAMBDA trace : /\ trace.total_duration_ms # NoneNum
                                    /\ trace.total_duration_ms > threshold_ms),
           limit)

\* What find_slow_traces says back about the call itself, and its message.
EchoKeys == {"server", "threshold_ms", "message", "sample_criteria"}

\* C28: for a registered server the result of find_slow_traces holds the stored traces
\* whose total duration exceeds the threshold, at most limit of them, and no other.
C28_FindSlowTracesReturnsSlowTraces ==
    (last.op = "find_slow_traces" /\ ~UnregisteredServer) =>
        \E key \in DOMAIN last.ret \ EchoKeys :
           last.ret[key] = SlowTraces(tracers[last.args.server_name],
                                      last.args.args[1], last.args.args[2])

\* The spans opened by the last wrapper call or pair of calls.
Opened == DOMAIN spans \ last.args.spans

\* C29: when two invocations of instrumented operations on one wrapper overlap in
\* time, each has its span, and neither's span has a span opened by the other as
\* its parent.
C29_ConcurrentSpansKeepLineage ==
    last.op = "concurrent_instrumented_tools" =>
        /\ \E s1, s2 \in Opened :
              /\ s1 # s2
              /\ spans[s1].tool_name = last.args.tools[1]
              /\ spans[s2].tool_name = last.args.tools[2]
        /\ \A s, p \in Opened : spans[s].parent_span_id # p

\* C30: when an instrumented operation calls instrumented operations of the same
\* wrapper one after another and returns, the outer call has its span, every inner
\* call has its own, and every inner span has the outer span as its parent.
C30_InnerSpansHaveOuterParent ==
    (WrapperCalled /\ last.args.outcome.kind = "calls") =>
        /\ last.exc = NoExc
        /\ \E outer \in Opened :
              /\ spans[outer].tool_name = last.args.tool_name
              /\ Cardinality(Opened \ {outer}) = Len(InnerTools)
              /\ \A s \in Opened \ {outer} : spans[s].parent_span_id = outer

\* C31: whatever the interleaving of the log calls of several threads on one logger,
\* once no call is in progress the buffer holds min(N, C) entries, N the number of
\* calls and C the capacity, and they are the min(N, C) entries appended last: none
\* but the oldest is missing.
C31_ConcurrentLogKeepsNewest ==
    AllIdle =>
        /\ Len(log_buffer) = Min(Len(logged), log_max_buffer_size)
        /\ SeqToSet(log_buffer) = SeqToSet(LastN(logged, log_max_buffer_size))

\* C32: whatever the interleaving of the increment_counter calls of several threads
\* on one name, once no call is in progress the counter is the sum of the values of
\* all the calls: no update is lost.
C32_ConcurrentIncrementsAllCount ==
    (AllIdle /\ \E i \in 1..Len(recorded) : recorded[i].type = "counter") =>
        /\ ThreadName \in DOMAIN counters
        /\ counters[ThreadName] = CounterTotal(recorded, ThreadName)

\* What a caller reads in a summary it holds.  The entries "counters" and "gauges"
\* are the collector's own dicts (lines 89-90 put self.counters and self.gauges in
\* the summary, not copies), which record updates in place; the other entries were
\* built for the summary.
SummaryShared == {"counters", "gauges"}
ReadSummary(summary, M) ==
    [key \in DOMAIN summary |-> IF key \in SummaryShared THEN M[key] ELSE summary[key]]

\* d1 and d2 are dicts with the same keys and values.
SameDict(d1, d2) == DOMAIN d1 = DOMAIN d2 /\ \A k \in DOMAIN d1 : d1[k] = d2[k]

\* C34: the counters, gauges, total count and recent metrics that a caller reads in a
\* summary it holds are those the summary had when get_metrics_summary returned it,
\* whatever was recorded since.
C34_SummaryIsSnapshot ==
    \A i \in 1..Len(summaries) :
       LET read == ReadSummary(summaries[i], Collector)
       IN  /\ SameDict(read.counters, summaries[i].counters)
           /\ SameDict(read.gauges, summaries[i].gauges)
           /\ read.total_metrics = summaries[i].total_metrics
           /\ read.recent_metrics = summaries[i].recent_metrics

\* The wrapper was called, by one thread or by two at once.
WrapperInvoked == last.op \in {"instrumented_tool", "concurrent_instrumented_tools"}

\* C36: the wrapper calls start_trace only while it has no trace: invocations that
\* follow one another or overlap call it once between them, the wrapper then has this
\* trace as its own, and every span they open belongs to it.
C36_WrapperStartsOneTrace ==
    WrapperInvoked =>
        /\ Truthy(current_trace_id)
        /\ Len(started) - last.args.started <= 1
        /\ Opened # {}
        /\ \A s \in Opened : spans[s].trace_id = current_trace_id

\* C37: an invocation by one thread that calls no instrumented operation opens one
\* span in the wrapper's trace, whose parent is the span the wrapper had as current
\* when the invocation began: none for the first invocation, the span of the
\* invocation before it for every other.
C37_ParentIsPreviousSpan ==
    (WrapperCalled /\ last.args.outcome.kind # "calls") =>
        \E s \in Opened :
           /\ Opened = {s}
           /\ spans[s].trace_id = current_trace_id
           /\ spans[s].parent_span_id = last.args.span_id
           /\ spans[s].span_id = current_span_id

\* C38: after an invocation the wrapper has a trace, and this trace, unless evicted, is
\* stored with status STARTED, no end time and no total duration, and is active.
C38_WrapperTraceStaysOpen ==
    WrapperCalled =>
        /\ current_trace_id \in GenTraceIds
        /\ current_trace_id \in DOMAIN traces =>
              /\ traces[current_trace_id].status = STARTED
              /\ traces[current_trace_id].end_time = NoneNum
              /\ traces[current_trace_id].total_duration_ms = NoneNum
              /\ current_trace_id \in active_traces
        /\ current_trace_id \notin DOMAIN traces => Len(trace_order) = max_traces

====
